---- MODULE Spec2Model ----
(***************************************************************************)
(* Euler tour trees of sonLib (C/impl/sonLibEulerTour.c).                  *)
(*                                                                         *)
(* A vertex id is a void*: the integer 0 is the NULL pointer.  A pointer   *)
(* to a vertex record is the tuple <<id>>, a pointer to a half-edge (and   *)
(* to the treap node it owns) is the tuple <<from, to>>; the NULL pointer  *)
(* of both kinds is <<>>.  A treap is the in-order sequence of its nodes;  *)
(* the set of treaps is the set of those sequences.                        *)
(***************************************************************************)
EXTENDS Integers, Sequences, FiniteSets, TLC

\* Vertex ids are 0..MaxId.
MaxId == 2

Ids == 0..MaxId

NULL == <<>>

Range(s) == {s[i] : i \in 1..Len(s)}

\* ---------------------------------------------------------------- treap
\* The treap collaborator (sonLibTreap.c), as the sequence it stores.

stTreap_findRoot(T, x) == CHOOSE s \in T : x \in Range(s)

stTreap_findMin(s) == s[1]

stTreap_findMax(s) == s[Len(s)]

Position(T, x) ==
    LET s == stTreap_findRoot(T, x) IN CHOOSE i \in 1..Len(s) : s[i] = x

stTreap_next(T, x) ==
    LET s == stTreap_findRoot(T, x)
        i == Position(T, x)
    IN  IF i < Len(s) THEN s[i + 1] ELSE NULL

stTreap_prev(T, x) ==
    LET s == stTreap_findRoot(T, x)
        i == Position(T, x)
    IN  IF i > 1 THEN s[i - 1] ELSE NULL

stTreap_size(T, x) == Len(stTreap_findRoot(T, x))

stTreap_compare(T, a, b) ==
    IF stTreap_findRoot(T, a) # stTreap_findRoot(T, b) THEN 0
    ELSE IF Position(T, a) < Position(T, b) THEN -1
    ELSE IF Position(T, a) > Position(T, b) THEN 1
    ELSE 0

\* splitBefore(x): x becomes the minimum of its treap; the nodes before it
\* form a treap of their own, whose root is returned (NULL if there are none).
SplitBeforeLeft(T, x) ==
    SubSeq(stTreap_findRoot(T, x), 1, Position(T, x) - 1)

stTreap_splitBefore(T, x) ==
    LET s == stTreap_findRoot(T, x)
        i == Position(T, x)
    IN  (T \ {s}) \cup ({SubSeq(s, 1, i - 1), SubSeq(s, i, Len(s))} \ {<<>>})

\* splitAfter(x): x becomes the maximum of its treap; the nodes after it form
\* a treap of their own, whose root is returned (NULL if there are none).
SplitAfterRight(T, x) ==
    SubSeq(stTreap_findRoot(T, x), Position(T, x) + 1,
           Len(stTreap_findRoot(T, x)))

stTreap_splitAfter(T, x) ==
    LET s == stTreap_findRoot(T, x)
        i == Position(T, x)
    IN  (T \ {s}) \cup ({SubSeq(s, 1, i), SubSeq(s, i + 1, Len(s))} \ {<<>>})

\* concat(a, b): the treap holding a, followed by the treap holding b.
stTreap_concat(T, a, b) ==
    LET s == stTreap_findRoot(T, a)
        t == stTreap_findRoot(T, b)
    IN  IF s = t THEN T ELSE (T \ {s, t}) \cup {s \o t}

\* ------------------------------------------------------------ the state
VARIABLES
    vertices,       \* et->vertices: the ids in the vertex table
    leftOut,        \* vertex->leftOut of every id (NULL when absent)
    rightIn,        \* vertex->rightIn of every id
    forwardEdges,   \* et->forwardEdges: the forward half-edges, keyed (from, to)
    backwardEdges,  \* et->backwardEdges: the backward half-edges
    treaps,         \* the treaps of the half-edges' nodes
    nComponents,    \* et->nComponents
    call,           \* the operation called last, and whether the call
                    \* respected the operation's precondition
    status,         \* "ok", or "aborted" once an assertion has failed
    script          \* the caller's position in a scripted scenario

vars == <<vertices, leftOut, rightIn, forwardEdges, backwardEdges, treaps,
          nComponents, call, status, script>>

\* stEulerTour_construct
Init ==
    /\ vertices = {}
    /\ leftOut = [i \in Ids |-> NULL]
    /\ rightIn = [i \in Ids |-> NULL]
    /\ forwardEdges = {}
    /\ backwardEdges = {}
    /\ treaps = {}
    /\ nComponents = 0
    /\ call = [op |-> "construct", pre |-> TRUE]
    /\ status = "ok"
    /\ script = "none"

\* ------------------------------------------------------ vertex, half-edge
stHash_search(V, id) == IF id \in V THEN <<id>> ELSE NULL

stEulerVertex_incidentEdgeA(lo, v) == lo[v]

stEulerVertex_incidentEdgeB(ri, v) == ri[v]

stEulerVertex_isSingleton(lo, v) == lo[v] = NULL

stEulerHalfEdge_contains(e, v) == e[1] = v \/ e[2] = v

stEulerHalfEdge_getFrom(e) == e[1]

stEulerHalfEdge_getTo(e) == e[2]

SameTreap(T, a, b) == stTreap_findRoot(T, a) = stTreap_findRoot(T, b)

stEulerVertex_connected_NoSelf(T, lo, from, to) ==
    IF from = NULL \/ to = NULL THEN {"fault", "true", "false"}
    ELSE IF lo[from[1]] = NULL \/ lo[to[1]] = NULL THEN {"false"}
    ELSE IF SameTreap(T, lo[from[1]], lo[to[1]]) THEN {"true"}
    ELSE {"false"}

\* stEulerVertex_connected on two pointers to vertex records: the set of its
\* possible outcomes.  The same pointer twice, NULL included, is connected;
\* otherwise a NULL pointer is dereferenced by stEulerVertex_incidentEdgeA,
\* which is undefined behaviour.
stEulerVertex_connected(T, lo, from, to) ==
    IF from = to THEN {"true"}
    ELSE IF from = NULL \/ to = NULL THEN {"fault", "true", "false"}
    ELSE IF lo[from[1]] = NULL \/ lo[to[1]] = NULL THEN {"false"}
    ELSE IF SameTreap(T, lo[from[1]], lo[to[1]]) THEN {"true"}
    ELSE {"false"}

\* stEulerTour_connected(et, u, v) for any two ids: the set of outcomes.
stEulerTour_connectedIn(V, T, lo, u, v) ==
    stEulerVertex_connected(T, lo, stHash_search(V, u), stHash_search(V, v))

\* ------------------------------------------------------------- makeRoot
MakeRootSplitPoint_AlwaysF(T, vertex, f) == f

\* The half-edge after which stEulerTour_makeRoot splits (lines 254-307), or
\* NULL when it returns early because vertex is already first in the tour.
\* f and b are the anchors, f the earlier one.
MakeRootSplitPoint(T, vertex, f) ==
    LET other == IF f[2] = vertex THEN f[1] ELSE f[2]
        next == stTreap_next(T, f)
    IN  IF ~stEulerHalfEdge_contains(next, vertex)
        THEN stTreap_prev(T, f)
        ELSE IF stEulerHalfEdge_contains(next, other)
        THEN LET next_next == IF stTreap_next(T, next) # NULL
                              THEN stTreap_next(T, next)
                              ELSE stTreap_prev(T, f)
             IN  IF next_next # NULL
                    /\ stEulerHalfEdge_contains(next_next, vertex)
                 THEN next ELSE f
        ELSE f

\* lines 261-266: of the two anchors, the one that is first in the treap.
MakeRootEarlier(T, lo, ri, vertex) ==
    IF stTreap_compare(T, lo[vertex], ri[vertex]) > 0
    THEN ri[vertex] ELSE lo[vertex]

MakeRootLater(T, lo, ri, vertex) ==
    IF stTreap_compare(T, lo[vertex], ri[vertex]) > 0
    THEN lo[vertex] ELSE ri[vertex]

\* lines 318-320: the two assertions that end stEulerTour_makeRoot.
MakeRootEnd(T, lo, ri, vertex, f) ==
    [T |-> T,
     ok |-> /\ stTreap_findMax(stTreap_findRoot(T, f)) = f
            /\ SameTreap(T, lo[vertex], ri[vertex])]

MakeRootRotate_NoConcat(T, lo, ri, vertex, f) ==
    MakeRootEnd(stTreap_splitAfter(T, f), lo, ri, vertex, f)

\* lines 311-317: split after f and move what followed f to the front.
MakeRootRotate(T, lo, ri, vertex, f) ==
    MakeRootEnd(IF SplitAfterRight(T, f) # NULL
                THEN stTreap_concat(stTreap_splitAfter(T, f),
                                    SplitAfterRight(T, f)[1], f)
                ELSE stTreap_splitAfter(T, f),
                lo, ri, vertex, f)

MakeRootAt_SplitOnly(T, lo, ri, vertex, f) ==
    IF f = NULL
    THEN [T |-> T, ok |-> SameTreap(T, lo[vertex], ri[vertex])]
    ELSE [T |-> stTreap_splitAfter(T, f), ok |-> TRUE]

\* lines 276-320, for the split point f found (NULL: return early).
MakeRootAt(T, lo, ri, vertex, f) ==
    IF f = NULL
    THEN [T |-> T, ok |-> SameTreap(T, lo[vertex], ri[vertex])]
    ELSE MakeRootRotate(T, lo, ri, vertex, f)

\* lines 254-320, for the anchors f and b in treap order.
MakeRootFrom(T, lo, ri, vertex, f, b) ==
    IF f = b \/ ~(stTreap_compare(T, f, b) < 0) \/ stTreap_next(T, f) = NULL
    THEN [T |-> T, ok |-> FALSE]
    ELSE MakeRootAt(T, lo, ri, vertex, MakeRootSplitPoint(T, vertex, f))

\* stEulerTour_makeRoot: the treaps it leaves, and whether it ran to its end
\* (ok is FALSE when an assertion fails or a NULL treap node is dereferenced).
stEulerTour_makeRoot(T, lo, ri, vertex) ==
    IF (lo[vertex] = NULL) # (ri[vertex] = NULL) THEN [T |-> T, ok |-> FALSE]
    ELSE IF stEulerVertex_isSingleton(lo, vertex) THEN [T |-> T, ok |-> TRUE]
    ELSE IF stTreap_size(T, lo[vertex]) = 2
    THEN [T |-> T, ok |-> SameTreap(T, lo[vertex], ri[vertex])]
    ELSE MakeRootFrom(T, lo, ri, vertex,
                      MakeRootEarlier(T, lo, ri, vertex),
                      MakeRootLater(T, lo, ri, vertex))

\* ------------------------------------------------------- vertex table
\* stEulerTour_createVertex of an id that is not in the table.
createVertex(id) ==
    /\ status = "ok"
    /\ id \notin vertices
    /\ vertices' = vertices \cup {id}
    /\ leftOut' = [leftOut EXCEPT ![id] = NULL]
    /\ rightIn' = [rightIn EXCEPT ![id] = NULL]
    /\ nComponents' = nComponents + 1
    /\ call' = [op |-> "createVertex", pre |-> TRUE]
    /\ UNCHANGED <<forwardEdges, backwardEdges, treaps, status>>

removeVertex_NoCount(id) ==
    /\ status = "ok"
    /\ id \in vertices
    /\ leftOut[id] = NULL /\ rightIn[id] = NULL
    /\ vertices' = vertices \ {id}
    /\ call' = [op |-> "removeVertex", pre |-> TRUE]
    /\ UNCHANGED <<leftOut, rightIn, forwardEdges, backwardEdges, treaps,
                   status, nComponents>>

\* stEulerTour_removeVertex of a vertex without incident edges.
removeVertex(id) ==
    /\ status = "ok"
    /\ id \in vertices
    /\ leftOut[id] = NULL /\ rightIn[id] = NULL
    /\ vertices' = vertices \ {id}
    /\ nComponents' = nComponents - 1
    /\ call' = [op |-> "removeVertex", pre |-> TRUE]
    /\ UNCHANGED <<leftOut, rightIn, forwardEdges, backwardEdges, treaps,
                   status>>

\* stEulerTour_createVertex of an id that is already in the table: nothing
\* looks the id up first.  A new record without anchors is made, the
\* counter is incremented and stHash_insert puts the record under the id.
createVertexAgain(id) ==
    /\ status = "ok"
    /\ id \in vertices
    /\ vertices' = vertices \cup {id}
    /\ leftOut' = [leftOut EXCEPT ![id] = NULL]
    /\ rightIn' = [rightIn EXCEPT ![id] = NULL]
    /\ nComponents' = nComponents + 1
    /\ call' = [op |-> "createVertex", pre |-> FALSE]
    /\ UNCHANGED <<forwardEdges, backwardEdges, treaps, status>>

\* stEulerTour_removeVertex of a vertex that has incident edges: nothing
\* looks at the anchors.  The id leaves the table and the counter is
\* decremented; the half-edges stay in the index and in their treap.
removeVertexConnected(id) ==
    /\ status = "ok"
    /\ id \in vertices
    /\ leftOut[id] # NULL \/ rightIn[id] # NULL
    /\ vertices' = vertices \ {id}
    /\ nComponents' = nComponents - 1
    /\ call' = [op |-> "removeVertex", pre |-> FALSE]
    /\ UNCHANGED <<leftOut, rightIn, forwardEdges, backwardEdges, treaps,
                   status>>

\* stEulerTour_makeRoot called on a vertex of the table.
makeRoot(v) ==
    /\ status = "ok"
    /\ v \in vertices
    /\ \E r \in {stEulerTour_makeRoot(treaps, leftOut, rightIn, v)} :
           /\ treaps' = r.T
           /\ status' = IF r.ok THEN "ok" ELSE "aborted"
    /\ call' = [op |-> "makeRoot", pre |-> TRUE]
    /\ UNCHANGED <<vertices, leftOut, rightIn, forwardEdges, backwardEdges,
                   nComponents>>

\* ----------------------------------------------------------------- link
\* findRoot(a) == findRoot(b) for two treap nodes; a NULL node cannot be
\* looked up.
SameRoot(T, a, b) == a # NULL /\ b # NULL /\ SameTreap(T, a, b)

\* The steps of stEulerTour_link work on st: the treaps T, the anchors lo
\* and ri, and ok, which is FALSE once an assertion has failed.

\* lines 328-345: the two new half-edges, each alone in its treap, then
\* makeRoot of vertex and of other.
LinkSecondRoot(r1, v) ==
    [T |-> stEulerTour_makeRoot(r1.T, leftOut, rightIn, v).T,
     lo |-> leftOut, ri |-> rightIn,
     ok |-> r1.ok /\ stEulerTour_makeRoot(r1.T, leftOut, rightIn, v).ok]

LinkMakeRoots(u, v) ==
    LinkSecondRoot(stEulerTour_makeRoot(treaps \cup {<<<<u, v>>>>, <<<<v, u>>>>},
                                        leftOut, rightIn, u), v)

LinkVertexA_Front(st, u, v) ==
    IF stEulerVertex_incidentEdgeA(st.lo, u) # NULL
    THEN [st EXCEPT !.T = stTreap_concat(st.T, <<u, v>>,
                 stTreap_findMin(stTreap_findRoot(st.T, st.lo[u])))]
    ELSE [st EXCEPT !.lo[u] = <<u, v>>]

\* lines 347-359: the new forward edge goes after the tour of vertex.
LinkVertexA(st, u, v) ==
    IF stEulerVertex_incidentEdgeA(st.lo, u) # NULL
    THEN [st EXCEPT !.T = stTreap_concat(st.T,
                 stTreap_findMin(stTreap_findRoot(st.T, st.lo[u])), <<u, v>>)]
    ELSE [st EXCEPT !.lo[u] = <<u, v>>]

\* lines 364-366: the assertions after the concat of line 363.
LinkOtherAEnd(st, u, v) ==
    [st EXCEPT !.ok = /\ st.ok
                      /\ SameRoot(st.T, st.lo[v], st.ri[v])
                      /\ SameRoot(st.T, <<u, v>>, st.ri[v])]

\* lines 360-370: the tour of other goes after the new forward edge.
LinkOtherA(st, u, v) ==
    IF stEulerVertex_incidentEdgeA(st.lo, v) # NULL
    THEN LinkOtherAEnd(
             [st EXCEPT !.T = stTreap_concat(st.T, <<u, v>>, st.lo[v]),
                        !.ok = st.ok /\ SameRoot(st.T, st.lo[v], st.ri[v])],
             u, v)
    ELSE [st EXCEPT !.lo[v] = <<u, v>>]

\* lines 375-378: the assertions after the concat of line 374.
LinkOtherBEnd(st, u, v) ==
    [st EXCEPT !.ok = /\ st.ok
                      /\ SameRoot(st.T, st.lo[v], <<v, u>>)
                      /\ SameRoot(st.T, st.lo[u], <<v, u>>)]

LinkOtherB_SameAnchor(st, u, v) ==
    IF stEulerVertex_incidentEdgeB(st.ri, v) # NULL
    THEN LinkOtherBEnd(
             [st EXCEPT !.T = stTreap_concat(st.T, st.ri[v], <<v, u>>),
                        !.ok = st.ok /\ SameRoot(st.T, st.lo[v], st.ri[v])],
             u, v)
    ELSE [st EXCEPT !.ri[v] = <<u, v>>,
                    !.T = stTreap_concat(st.T, st.lo[u], <<v, u>>)]

\* lines 371-384: the new backward edge goes last.
LinkOtherB(st, u, v) ==
    IF stEulerVertex_incidentEdgeB(st.ri, v) # NULL
    THEN LinkOtherBEnd(
             [st EXCEPT !.T = stTreap_concat(st.T, st.ri[v], <<v, u>>),
                        !.ok = st.ok /\ SameRoot(st.T, st.lo[v], st.ri[v])],
             u, v)
    ELSE [st EXCEPT !.ri[v] = <<v, u>>,
                    !.T = stTreap_concat(st.T, st.lo[u], <<v, u>>)]

LinkVertexB_NoRightIn(st, u, v, tleft) ==
    IF tleft # NULL
    THEN [st EXCEPT !.T = stTreap_concat(st.T, <<v, u>>, tleft),
                    !.ri[u] = tleft]
    ELSE st

\* lines 385-391: tleft is the NULL it was initialised to in line 353.
LinkVertexB(st, u, v, tleft) ==
    IF tleft # NULL
    THEN [st EXCEPT !.T = stTreap_concat(st.T, <<v, u>>, tleft),
                    !.ri[u] = tleft]
    ELSE [st EXCEPT !.ri[u] = <<v, u>>]

\* lines 392-393: the assertions that end stEulerTour_link.
LinkEnd(st, u, v) ==
    [st EXCEPT !.ok = /\ st.ok
                      /\ SameRoot(st.T, <<u, v>>, <<v, u>>)
                      /\ stEulerVertex_connected(st.T, st.lo, <<u>>, <<v>>)
                             = {"true"}]

\* The body of stEulerTour_link after its two precondition assertions
\* (lines 325-393): the treaps and anchors it leaves and whether every
\* assertion held.  The new forward edge is <<u, v>>, the backward <<v, u>>.
stEulerTour_link(u, v) ==
    LinkEnd(LinkVertexB(LinkOtherB(LinkOtherA(LinkVertexA(
        LinkMakeRoots(u, v), u, v), u, v), u, v), u, v, NULL), u, v)

\* The forest the structure stands for: the undirected edges in the index.
Edges == {{e[1], e[2]} : e \in forwardEdges}

RECURSIVE Reach(_, _)
Reach(E, S) ==
    LET S2 == S \cup {w \in vertices : \E x \in S : {x, w} \in E}
    IN  IF S2 = S THEN S ELSE Reach(E, S2)

Component(v) == Reach(Edges, {v})

\* The documented precondition of link: two vertices of different trees.
LinkPrecondition(u, v) == u # v /\ v \notin Component(u)

\* The documented precondition of cut: {u, v} is an edge of the forest.
CutPrecondition(u, v) == {u, v} \in Edges /\ u # v

link_ReturnsEarly(u, v) ==
    /\ status = "ok"
    /\ u \in vertices /\ v \in vertices
    /\ call' = [op |-> "link", pre |-> LinkPrecondition(u, v)]
    /\ IF u = v \/ stEulerTour_connectedIn(vertices, treaps, leftOut, u, v)
                       # {"false"}
       THEN UNCHANGED <<vertices, leftOut, rightIn, forwardEdges,
                        backwardEdges, treaps, nComponents, status>>
       ELSE \E r \in {stEulerTour_link(u, v)} :
                /\ nComponents' = nComponents - 1
                /\ leftOut' = r.lo
                /\ rightIn' = r.ri
                /\ treaps' = r.T
                /\ forwardEdges' = forwardEdges \cup {<<u, v>>}
                /\ backwardEdges' = backwardEdges \cup {<<v, u>>}
                /\ status' = IF r.ok THEN "ok" ELSE "aborted"
                /\ UNCHANGED vertices

\* stEulerTour_link(et, u, v) on two ids of the table.
link(u, v) ==
    /\ status = "ok"
    /\ u \in vertices /\ v \in vertices
    /\ call' = [op |-> "link", pre |-> LinkPrecondition(u, v)]
    /\ IF u = v \/ stEulerTour_connectedIn(vertices, treaps, leftOut, u, v)
                       # {"false"}
       THEN /\ status' = "aborted"
            /\ UNCHANGED <<vertices, leftOut, rightIn, forwardEdges,
                           backwardEdges, treaps, nComponents>>
       ELSE \E r \in {stEulerTour_link(u, v)} :
                /\ nComponents' = nComponents - 1
                /\ leftOut' = r.lo
                /\ rightIn' = r.ri
                /\ treaps' = r.T
                /\ forwardEdges' = forwardEdges \cup {<<u, v>>}
                /\ backwardEdges' = backwardEdges \cup {<<v, u>>}
                /\ status' = IF r.ok THEN "ok" ELSE "aborted"
                /\ UNCHANGED vertices

\* ------------------------------------------------------------------ cut
stEdgeContainer_getEdge(container, u, v) ==
    IF <<u, v>> \in container THEN <<u, v>> ELSE NULL

\* The half-edge of {u, v} in a container, trying both orderings
\* (lines 435-438).
CutGetEdge(container, u, v) ==
    IF stEdgeContainer_getEdge(container, u, v) # NULL
    THEN stEdgeContainer_getEdge(container, u, v)
    ELSE stEdgeContainer_getEdge(container, v, u)

CutWrapN_NoWrap(T, n, p) == n

\* lines 517-525, 560-568, 586-594: when exactly one of n, p exists, the
\* other one is taken from the far end of the treap of the one that exists.
CutWrapN(T, n, p) ==
    IF n = NULL /\ p # NULL THEN stTreap_findMin(stTreap_findRoot(T, p))
    ELSE n

CutWrapP(T, n, p) ==
    IF p = NULL /\ n # NULL THEN stTreap_findMax(stTreap_findRoot(T, n))
    ELSE p

\* "choose new incident edges" (lines 513-607): the anchors of from and to,
\* and whether the assertions on the way held.
CutAnchors(T, lo, ri, from, to, p0, n0, pn, nn) ==
    LET n == CutWrapN(T, n0, p0)
        p == CutWrapP(T, n0, p0)
        wrapOk == ((n0 = NULL) # (p0 = NULL)) => n # p
        C(e, x) == stEulerHalfEdge_contains(e, x)
    IN  IF C(pn, from) /\ C(pn, to)
        THEN IF n # NULL
             THEN IF C(n, from)
                  THEN [fl |-> n, fr |-> p, tl |-> NULL, tr |-> NULL,
                        ok |-> wrapOk /\ p # NULL /\ C(p, from)]
                  ELSE [fl |-> NULL, fr |-> NULL, tl |-> n, tr |-> p,
                        ok |-> wrapOk /\ p # NULL /\ C(n, to) /\ C(p, to)]
             ELSE [fl |-> NULL, fr |-> NULL, tl |-> NULL, tr |-> NULL,
                   ok |-> wrapOk]
        ELSE IF C(pn, from)
        THEN IF n # NULL
             THEN [fl |-> pn, fr |-> nn, tl |-> n, tr |-> p,
                   ok |-> wrapOk /\ C(nn, from) /\ p # NULL
                          /\ C(n, to) /\ C(p, to)]
             ELSE [fl |-> pn, fr |-> nn, tl |-> NULL, tr |-> NULL,
                   ok |-> wrapOk /\ C(nn, from)]
        ELSE IF C(pn, to)
        THEN IF n # NULL
             THEN [fl |-> n, fr |-> p, tl |-> pn, tr |-> nn,
                   ok |-> wrapOk /\ C(nn, to) /\ p # NULL
                          /\ C(n, from) /\ C(p, from)]
             ELSE [fl |-> NULL, fr |-> NULL, tl |-> pn, tr |-> nn,
                   ok |-> wrapOk /\ C(nn, to)]
        ELSE [fl |-> lo[from], fr |-> ri[from], tl |-> lo[to], tr |-> ri[to],
              ok |-> TRUE]

\* The steps of stEulerTour_cut work on st: the treaps T, the two halves f
\* and b in treap order, the endpoints from and to of the forward half, the
\* four neighbours p, n, pn, nn, the split-off trees tree1 and tree2, the
\* anchors lo and ri, and ok, which is FALSE once an assertion has failed.

\* lines 442-463.
CutStart(f0, b0) ==
    [T |-> treaps, lo |-> leftOut, ri |-> rightIn,
     from |-> f0[1], to |-> f0[2],
     f |-> IF stTreap_compare(treaps, f0, b0) > 0 THEN b0 ELSE f0,
     b |-> IF stTreap_compare(treaps, f0, b0) > 0 THEN f0 ELSE b0,
     p |-> NULL, n |-> NULL, pn |-> NULL, nn |-> NULL,
     tree1 |-> NULL, tree2 |-> NULL, ok |-> TRUE]

CutNeighbours(st) ==
    [st EXCEPT !.p = stTreap_prev(st.T, st.f),
               !.n = stTreap_next(st.T, st.b),
               !.pn = stTreap_next(st.T, st.f),
               !.nn = stTreap_prev(st.T, st.b),
               !.ok = /\ stTreap_prev(st.T, st.b) # NULL
                      /\ stTreap_next(st.T, stTreap_prev(st.T, st.b)) = st.b]

\* lines 494-498.
CutSplitBefore(st) ==
    [st EXCEPT !.tree1 = SplitBeforeLeft(st.T, st.f),
               !.T = stTreap_splitBefore(st.T, st.f),
               !.ok = /\ st.ok
                      /\ SplitBeforeLeft(st.T, st.f) # NULL =>
                            stTreap_findMax(SplitBeforeLeft(st.T, st.f)) = st.p]

\* lines 499-500.
CutSplitAfter(st) ==
    [st EXCEPT !.tree2 = SplitAfterRight(st.T, st.b),
               !.T = stTreap_splitAfter(st.T, st.b),
               !.ok = /\ st.ok
                      /\ st.tree1 # NULL => ~SameTreap(st.T, st.tree1[1], st.f)
                      /\ SplitAfterRight(st.T, st.b) # NULL =>
                            stTreap_findMin(SplitAfterRight(st.T, st.b)) = st.n]

\* lines 502-504.
CutConcat(st) ==
    IF st.tree1 # NULL /\ st.tree2 # NULL
    THEN [st EXCEPT !.T = stTreap_concat(st.T, st.tree1[1], st.tree2[1])]
    ELSE st

\* lines 505-511.
CutAsserts(st) ==
    [st EXCEPT !.ok =
        /\ st.ok
        /\ st.tree1 # NULL => /\ ~SameTreap(st.T, st.tree1[1], st.f)
                              /\ ~SameTreap(st.T, st.tree1[1], st.b)
        /\ st.tree2 # NULL => /\ ~SameTreap(st.T, st.tree2[1], st.f)
                              /\ ~SameTreap(st.T, st.tree2[1], st.b)
        /\ st.pn # NULL]

CutSetAnchors_Crossed(st, an) ==
    [st EXCEPT !.lo[st.from] = an.fl, !.ri[st.from] = an.tr,
               !.lo[st.to] = an.tl, !.ri[st.to] = an.fr,
               !.ok = st.ok /\ an.ok]

\* lines 513-607.
CutSetAnchors(st, an) ==
    [st EXCEPT !.lo[st.from] = an.fl, !.ri[st.from] = an.fr,
               !.lo[st.to] = an.tl, !.ri[st.to] = an.tr,
               !.ok = st.ok /\ an.ok]

CutChoose(st) ==
    CutSetAnchors(st, CutAnchors(st.T, st.lo, st.ri, st.from, st.to,
                                 st.p, st.n, st.pn, st.nn))

\* lines 608-609.
CutIsolate(st) ==
    [st EXCEPT !.T = stTreap_splitBefore(stTreap_splitAfter(st.T, st.f),
                                         st.b)]

\* lines 611-621: v is from or to.
CutAlone(st, v) ==
    IF stEulerVertex_incidentEdgeA(st.lo, v) # NULL
       /\ stTreap_size(st.T, st.lo[v]) = 1
    THEN [st EXCEPT !.lo[v] = NULL, !.ri[v] = NULL]
    ELSE st

\* lines 622-627: the two halves are destructed with their treap nodes.
CutEnd(st) ==
    [st EXCEPT !.T = st.T \ {<<st.f>>, <<st.b>>},
               !.ok = /\ st.ok
                      /\ stTreap_size(st.T, st.f) = 1
                      /\ stTreap_size(st.T, st.b) = 1]

CutFromTo(st) == CutAlone(CutAlone(st, st.from), st.to)

\* The body of stEulerTour_cut from line 442 on, for the two halves f0
\* (forward) and b0 (backward) of the edge, both found and in one treap: the
\* treaps and anchors it leaves and whether every assertion held.
stEulerTour_cut(f0, b0) ==
    CutEnd(CutFromTo(CutIsolate(CutChoose(CutAsserts(CutConcat(
        CutSplitAfter(CutSplitBefore(CutNeighbours(CutStart(f0, b0))))))))))

cut_NoCount(u, v) ==
    /\ status = "ok"
    /\ u \in vertices /\ v \in vertices
    /\ call' = [op |-> "cut", pre |-> CutPrecondition(u, v)]
    /\ UNCHANGED nComponents
    /\ \E f \in {CutGetEdge(forwardEdges, u, v)},
          b \in {CutGetEdge(backwardEdges, u, v)} :
           IF stEulerTour_connectedIn(vertices, treaps, leftOut, u, v)
                  # {"true"}
              \/ f = NULL \/ b = NULL \/ ~SameRoot(treaps, f, b)
           THEN /\ status' = "aborted"
                /\ UNCHANGED <<vertices, leftOut, rightIn, forwardEdges,
                               backwardEdges, treaps>>
           ELSE \E r \in {stEulerTour_cut(f, b)} :
                    /\ leftOut' = r.lo
                    /\ rightIn' = r.ri
                    /\ treaps' = r.T
                    /\ forwardEdges' = forwardEdges \ {f, b}
                    /\ backwardEdges' = backwardEdges \ {f, b}
                    /\ status' = IF r.ok THEN "ok" ELSE "aborted"
                    /\ UNCHANGED vertices

\* stEulerTour_cut(et, u, v) on two ids of the table.
cut(u, v) ==
    /\ status = "ok"
    /\ u \in vertices /\ v \in vertices
    /\ call' = [op |-> "cut", pre |-> CutPrecondition(u, v)]
    /\ nComponents' = nComponents + 1
    /\ \E f \in {CutGetEdge(forwardEdges, u, v)},
          b \in {CutGetEdge(backwardEdges, u, v)} :
           IF stEulerTour_connectedIn(vertices, treaps, leftOut, u, v)
                  # {"true"}
              \/ f = NULL \/ b = NULL \/ ~SameRoot(treaps, f, b)
           THEN /\ status' = "aborted"
                /\ UNCHANGED <<vertices, leftOut, rightIn, forwardEdges,
                               backwardEdges, treaps>>
           ELSE \E r \in {stEulerTour_cut(f, b)} :
                    /\ leftOut' = r.lo
                    /\ rightIn' = r.ri
                    /\ treaps' = r.T
                    /\ forwardEdges' = forwardEdges \ {f, b}
                    /\ backwardEdges' = backwardEdges \ {f, b}
                    /\ status' = IF r.ok THEN "ok" ELSE "aborted"
                    /\ UNCHANGED vertices

\* -------------------------------------------------------- queries
\* stEulerTour_connected(et, u, v) in the current state.
stEulerTour_connected(u, v) ==
    stEulerTour_connectedIn(vertices, treaps, leftOut, u, v)

stEulerTour_findRoot_NoMin(v) ==
    IF stHash_search(vertices, v) = NULL THEN NULL
    ELSE stEulerVertex_incidentEdgeA(leftOut, v)

\* stEulerTour_findRoot: the minimum node of v's treap, NULL for a singleton
\* or an id that is not in the table.
stEulerTour_findRoot(v) ==
    IF stHash_search(vertices, v) = NULL THEN NULL
    ELSE IF stEulerVertex_incidentEdgeA(leftOut, v) = NULL THEN NULL
    ELSE stTreap_findMin(stTreap_findRoot(treaps, leftOut[v]))

\* stEulerTour_findRootNode: the set of its possible outcomes.  For a
\* singleton or an id that is not in the table, stTreap_getValue is handed
\* the NULL that stEulerTour_findRoot returned, which is undefined
\* behaviour: a fault (-1) or any id.
stEulerTour_findRootNode(v) ==
    IF stEulerTour_findRoot(v) = NULL THEN Ids \cup {-1}
    ELSE {stEulerHalfEdge_getFrom(stEulerTour_findRoot(v))}

stEulerTour_size_NoPlusOne(v) ==
    IF leftOut[v] = NULL THEN 1
    ELSE stTreap_size(treaps, leftOut[v]) \div 2

\* stEulerTour_size of a vertex of the table.
stEulerTour_size(v) ==
    IF leftOut[v] = NULL THEN 1
    ELSE (stTreap_size(treaps, leftOut[v]) \div 2) + 1

\* ------------------------------------------------------------ iterators
stEulerTour_getIterator_NoVertex(v) ==
    [currentEdgeNode |-> stEulerTour_findRoot(v), currentVertex |-> 0]

stEulerTour_getIterator(v) ==
    [currentEdgeNode |-> stEulerTour_findRoot(v), currentVertex |-> v]

stEulerTourIterator_getNext_NoLast(it) ==
    IF it.currentEdgeNode = NULL
    THEN [ret |-> 0, it |-> [it EXCEPT !.currentVertex = 0]]
    ELSE [ret |-> stEulerHalfEdge_getFrom(it.currentEdgeNode),
          it |-> [currentEdgeNode |->
                      stTreap_next(treaps, it.currentEdgeNode),
                  currentVertex |->
                      stEulerHalfEdge_getTo(it.currentEdgeNode)]]

\* stEulerTourIterator_getNext: the value returned (0 is the NULL pointer)
\* and the iterator it leaves.
stEulerTourIterator_getNext(it) ==
    IF it.currentEdgeNode = NULL
    THEN [ret |-> it.currentVertex,
          it |-> [it EXCEPT !.currentVertex = 0]]
    ELSE [ret |-> stEulerHalfEdge_getFrom(it.currentEdgeNode),
          it |-> [currentEdgeNode |->
                      stTreap_next(treaps, it.currentEdgeNode),
                  currentVertex |->
                      stEulerHalfEdge_getTo(it.currentEdgeNode)]]

\* The loop of stEulerTour_getNodesInComponent (lines 657-659).
RECURSIVE NodesLoop(_, _)
NodesLoop(it, nodes) ==
    LET r == stEulerTourIterator_getNext(it)
    IN  IF r.ret = 0 THEN nodes ELSE NodesLoop(r.it, nodes \cup {r.ret})

stEulerTour_getNodesInComponent(v) ==
    NodesLoop(stEulerTour_getIterator(v), {})

\* The loop of stEulerTour_printTour (lines 177-179): the ids printed.
RECURSIVE PrintLoop(_, _)
PrintLoop(it, out) ==
    LET r == stEulerTourIterator_getNext(it)
    IN  IF r.ret = 0 THEN out ELSE PrintLoop(r.it, Append(out, r.ret))

stEulerTour_printTour(v) == PrintLoop(stEulerTour_getIterator(v), <<>>)

stEulerTour_getEdgeIterator(v) ==
    [currentEdgeNode |-> stEulerTour_findRoot(v)]

stEulerTourEdgeIterator_getNext(it) ==
    IF it.currentEdgeNode = NULL THEN [ret |-> NULL, it |-> it]
    ELSE [ret |-> it.currentEdgeNode,
          it |-> [currentEdgeNode |->
                      stTreap_next(treaps, it.currentEdgeNode)]]

\* ------------------------------------------------- the specification
Next ==
    \/ \E id \in Ids : createVertex(id) /\ UNCHANGED script
    \/ \E id \in Ids : removeVertex(id) /\ UNCHANGED script
    \/ \E v \in Ids : makeRoot(v) /\ UNCHANGED script
    \/ \E u, v \in Ids : link(u, v) /\ UNCHANGED script
    \/ \E u, v \in Ids : cut(u, v) /\ UNCHANGED script

Spec == Init /\ [][Next]_vars

\* The scenario "reconnect via a different edge": the vertices 1..5 are
\* created and the path 1-2-3-4-5 is linked, then cut(2,3), then link(1,4).
\* The links of the path are made in any order and with the two ids in any
\* order, which includes link(1,2), link(2,3), link(3,4), link(4,5).
ScenarioIds == 1..5

PathEdges == {{i, i + 1} : i \in 1..4}

InitScenario ==
    /\ vertices = {}
    /\ leftOut = [i \in ScenarioIds |-> NULL]
    /\ rightIn = [i \in ScenarioIds |-> NULL]
    /\ forwardEdges = {}
    /\ backwardEdges = {}
    /\ treaps = {}
    /\ nComponents = 0
    /\ call = [op |-> "construct", pre |-> TRUE]
    /\ status = "ok"
    /\ script = "build"

NextScenario ==
    \/ /\ script = "build"
       /\ \E id \in ScenarioIds : createVertex(id)
       /\ UNCHANGED script
    \/ /\ script = "build"
       /\ \E u, v \in ScenarioIds :
             {u, v} \in PathEdges \ Edges /\ link(u, v)
       /\ UNCHANGED script
    \/ /\ script = "build"
       /\ PathEdges \subseteq Edges
       /\ cut(2, 3) \/ cut(3, 2)
       /\ script' = "cut"
    \/ /\ script = "cut"
       /\ link(1, 4) \/ link(4, 1)
       /\ script' = "done"

SpecScenario == InitScenario /\ [][NextScenario]_vars

\* The callers that break the contract of the vertex table.  The state is
\* followed up to and including the first such call: after it one id may
\* stand for two vertex records, the one in the table and the one the
\* half-edges point to.
Misused == call.op \in {"createVertex", "removeVertex"} /\ ~call.pre

NextMisuse ==
    \/ ~Misused /\ Next
    \/ ~Misused /\ \E id \in Ids : createVertexAgain(id) /\ UNCHANGED script
    \/ ~Misused /\ \E id \in Ids : removeVertexConnected(id)
                                     /\ UNCHANGED script

SpecMisuse == Init /\ [][NextMisuse]_vars

\* What a caller can observe of the forest: the connected relation, the
\* size of every vertex's component and the number of components.
Observation ==
    [connected |-> [p \in vertices \X vertices |->
                       stEulerTour_connected(p[1], p[2])],
     size |-> [w \in vertices |-> stEulerTour_size(w)],
     nComponents |-> nComponents]

\* The round trips: in any state the structure can be in, a caller notes
\* what it observes, then links two vertices of different trees and cuts
\* the new edge, or cuts an edge and links its two ends again.
InitRoundTrip ==
    /\ vertices = {}
    /\ leftOut = [i \in Ids |-> NULL]
    /\ rightIn = [i \in Ids |-> NULL]
    /\ forwardEdges = {}
    /\ backwardEdges = {}
    /\ treaps = {}
    /\ nComponents = 0
    /\ call = [op |-> "construct", pre |-> TRUE]
    /\ status = "ok"
    /\ script = [at |-> "any", u |-> 0, v |-> 0, seen |-> Observation]

NextRoundTrip ==
    \/ script.at = "any" /\ Next
    \/ /\ script.at = "any"
       /\ \E u, v \in vertices :
             /\ LinkPrecondition(u, v)
             /\ link(u, v)
             /\ script' = [at |-> "linked", u |-> u, v |-> v,
                           seen |-> Observation]
    \/ /\ script.at = "linked"
       /\ cut(script.u, script.v)
       /\ script' = [script EXCEPT !.at = "linked, cut"]
    \/ /\ script.at = "any"
       /\ \E u, v \in vertices :
             /\ CutPrecondition(u, v)
             /\ cut(u, v)
             /\ script' = [at |-> "cut", u |-> u, v |-> v,
                           seen |-> Observation]
    \/ /\ script.at = "cut"
       /\ link(script.u, script.v)
       /\ script' = [script EXCEPT !.at = "cut, linked"]

SpecRoundTrip == InitRoundTrip /\ [][NextRoundTrip]_vars

\* Callers that respect every precondition, on the ids 0..MaxLinkId: enough
\* vertices to link two trees that both have edges.  The ids are created
\* in increasing order, and script counts the cuts, of which the caller
\* makes MaxCuts at most.
MaxLinkId == 3

MaxCuts == 1

LinkIds == 0..MaxLinkId

InitLinks ==
    /\ vertices = {}
    /\ leftOut = [i \in LinkIds |-> NULL]
    /\ rightIn = [i \in LinkIds |-> NULL]
    /\ forwardEdges = {}
    /\ backwardEdges = {}
    /\ treaps = {}
    /\ nComponents = 0
    /\ call = [op |-> "construct", pre |-> TRUE]
    /\ status = "ok"
    /\ script = 0

NextLinks ==
    \/ \E id \in LinkIds :
          id = Cardinality(vertices) /\ createVertex(id) /\ UNCHANGED script
    \/ \E v \in LinkIds : makeRoot(v) /\ UNCHANGED script
    \/ \E u, v \in LinkIds :
          LinkPrecondition(u, v) /\ link(u, v) /\ UNCHANGED script
    \/ \E u, v \in LinkIds :
          /\ script < MaxCuts
          /\ CutPrecondition(u, v) /\ cut(u, v)
          /\ script' = script + 1

SpecLinks == InitLinks /\ [][NextLinks]_vars

\* No call that respects its precondition fails an assertion.
NoAbortInValidCall == ~(status = "aborted" /\ call.pre)

\* ------------------------------------------------------------ the claims
Components == {Component(v) : v \in vertices}

\* C1: as long as every call respected its precondition, connected(u, v) is
\* true exactly when u and v are in the same tree of the forest of the edges
\* linked and not cut; a vertex is connected to itself, two distinct
\* singletons are not connected.
C1_ConnectedIsSameTree ==
    status = "ok" =>
        \A u, v \in vertices :
            stEulerTour_connected(u, v) =
                {IF v \in Component(u) THEN "true" ELSE "false"}

C1_Witness ==
    /\ status = "ok" /\ call.op = "cut"
    /\ \E u, v, w \in vertices :
          /\ u # v /\ v \in Component(u) /\ w \notin Component(u)
          /\ stEulerTour_connected(u, v) = {"true"}
          /\ stEulerTour_connected(u, w) = {"false"}

\* C2 (I4): as long as every call respected its precondition, nComponents is
\* the number of connected components of the forest.
C2_nComponents ==
    status = "ok" => nComponents = Cardinality(Components)

C2_Witness ==
    /\ status = "ok" /\ call.op = "removeVertex"
    /\ nComponents = 1 /\ \E c \in Components : Cardinality(c) = 2

\* C3 (I5): as long as every call respected its precondition, the treap of a
\* vertex whose tree has k > 1 vertices has 2(k-1) nodes, a vertex alone in
\* its tree is in no treap, and size(v) is k.
C3_TreapSize ==
    status = "ok" =>
        \A v \in vertices :
            LET k == Cardinality(Component(v))
            IN  /\ stEulerTour_size(v) = k
                /\ k = 1 => leftOut[v] = NULL
                /\ k > 1 => /\ leftOut[v] # NULL
                            /\ stTreap_size(treaps, leftOut[v]) = 2 * (k - 1)

C3_Witness ==
    /\ status = "ok" /\ call.op = "cut"
    /\ \E v, w \in vertices :
          /\ stEulerTour_size(v) = 2
          /\ stEulerTour_size(w) = 1
\* The values returned by the successive getNext calls on getIterator(v), up
\* to and including the call that finds no treap node left (0 is the NULL
\* pointer), and the iterator these calls leave.
RECURSIVE TraceLoop(_, _)
TraceLoop(it, out) ==
    LET r == stEulerTourIterator_getNext(it)
    IN  IF it.currentEdgeNode = NULL
        THEN [out |-> Append(out, r.ret), it |-> r.it]
        ELSE TraceLoop(r.it, Append(out, r.ret))

IteratorTrace(v) == TraceLoop(stEulerTour_getIterator(v), <<>>)

\* Every further call returns NULL and leaves the iterator as it is.
IteratorExhausted(it) ==
    /\ stEulerTourIterator_getNext(it).ret = 0
    /\ stEulerTourIterator_getNext(it).it = it

\* The half-edges returned by the edge iterator before it returns NULL.
RECURSIVE EdgeLoop(_, _)
EdgeLoop(it, out) ==
    LET r == stEulerTourEdgeIterator_getNext(it)
    IN  IF r.ret = NULL THEN out ELSE EdgeLoop(r.it, Append(out, r.ret))

EdgeTrace(v) == EdgeLoop(stEulerTour_getEdgeIterator(v), <<>>)

Occurrences(t, S) == Cardinality({i \in 1..Len(t) : t[i] \in S})

\* C4, as claimed: after the scenario, connected(3,5), connected(1,5) and
\* connected(2,5) are false, connected(1,4) is true and nComponents is 2.
C4_ScenarioAsClaimed ==
    script = "done" =>
        /\ stEulerTour_connected(3, 5) = {"false"}
        /\ stEulerTour_connected(1, 5) = {"false"}
        /\ stEulerTour_connected(1, 4) = {"true"}
        /\ stEulerTour_connected(2, 5) = {"false"}
        /\ nComponents = 2

\* C4, as amended: no call of the scenario aborts, and after it the five
\* vertices are one tree (2-1-4, 3-4-5): connected(3,5), connected(1,5),
\* connected(1,4) and connected(2,5) are true and nComponents is 1.
C4_ScenarioOneTree ==
    /\ status = "ok"
    /\ script = "done" =>
            /\ stEulerTour_connected(3, 5) = {"true"}
            /\ stEulerTour_connected(1, 5) = {"true"}
            /\ stEulerTour_connected(1, 4) = {"true"}
            /\ stEulerTour_connected(2, 5) = {"true"}
            /\ nComponents = 1

C4_Witness ==
    /\ script = "done" /\ status = "ok" /\ call.op = "link"
    /\ Edges = {{1, 2}, {3, 4}, {4, 5}, {1, 4}}
    /\ <<1, 2>> \in forwardEdges /\ <<2, 3>> \notin forwardEdges
    /\ <<1, 4>> \in forwardEdges

\* C5 (L4): as long as every call respected its precondition, the set
\* returned by getNodesInComponent(v) is the set of vertices reachable from v
\* through the edges of the forest, v included.
C5_NodesInComponent ==
    status = "ok" =>
        \A v \in vertices : stEulerTour_getNodesInComponent(v) = Component(v)

\* C6, as claimed: the vertex iterator returns every vertex of v's component
\* exactly once and is then exhausted.
C6_EachVertexOnce ==
    status = "ok" =>
        \A v \in vertices :
            LET t == IteratorTrace(v)
            IN  /\ Range(t.out) = Component(v)
                /\ Len(t.out) = Cardinality(Component(v))
                /\ IteratorExhausted(t.it)

\* C6, as amended: the vertex iterator returns the `from` of every half-edge
\* of v's treap in treap order and then the `to` of the last one (v itself
\* for a singleton): 2k-1 values for a component of k vertices, among which
\* every vertex of the component occurs at least once; then it is exhausted.
C6_EachVertexAtLeastOnce ==
    status = "ok" =>
        \A v \in vertices :
            LET t == IteratorTrace(v)
                k == Cardinality(Component(v))
            IN  /\ Range(t.out) = Component(v)
                /\ Len(t.out) = 2 * k - 1
                /\ IteratorExhausted(t.it)

C6_Witness ==
    /\ status = "ok" /\ call.op = "link"
    /\ \E v \in vertices :
          /\ Cardinality(Component(v)) = 3
          /\ Len(IteratorTrace(v).out) = 5
          /\ Range(IteratorTrace(v).out) = Component(v)

\* C7: as long as every call respected its precondition, the edge iterator
\* of v returns the nodes of v's treap in order from its minimum; these are
\* the half-edges of v's component, each once, so that every edge of the
\* component is returned once as its forward and once as its backward half;
\* for a singleton it returns nothing.
C7_EdgeIterator ==
    status = "ok" =>
        \A v \in vertices :
            LET t == EdgeTrace(v)
                comp == Component(v)
                halves == {e \in forwardEdges \cup backwardEdges :
                              e[1] \in comp}
            IN  /\ comp = {v} => t = <<>>
                /\ comp # {v} => /\ leftOut[v] # NULL
                                 /\ t = stTreap_findRoot(treaps, leftOut[v])
                /\ Range(t) = halves
                /\ Len(t) = Cardinality(halves)
                /\ \A e \in Edges :
                      e \subseteq comp =>
                          /\ Occurrences(t, {h \in forwardEdges :
                                                {h[1], h[2]} = e}) = 1
                          /\ Occurrences(t, {h \in backwardEdges :
                                                {h[1], h[2]} = e}) = 1

C7_Witness ==
    /\ status = "ok" /\ call.op = "makeRoot"
    /\ \E v \in vertices :
          /\ Len(EdgeTrace(v)) = 4
          /\ EdgeTrace(v)[1] # leftOut[v]

\* C8: as long as every call respected its precondition, for a vertex
\* without edges size is 1, findRoot is NULL, and the vertex iterator returns
\* the vertex once and is then exhausted.
C8_Singleton ==
    status = "ok" =>
        \A v \in vertices :
            Component(v) = {v} =>
                /\ stEulerTour_size(v) = 1
                /\ stEulerTour_findRoot(v) = NULL
                /\ IteratorTrace(v).out = <<v>>
                /\ IteratorExhausted(IteratorTrace(v).it)

C8_Witness ==
    /\ status = "ok" /\ call.op = "cut"
    /\ \E v, w \in vertices :
          /\ Component(v) = {v} /\ IteratorTrace(v).out = <<v>>
          /\ Component(w) # {w}

\* C9: connected(u, v) returns false, and does nothing else, when u or v is
\* not in the vertex table.
C9_AbsentNotConnected ==
    \A u, v \in Ids :
        (u \notin vertices \/ v \notin vertices) =>
            stEulerTour_connected(u, v) = {"false"}

\* C10: a link of a vertex with itself or of two connected vertices, and a
\* cut of an edge that is not there, abort: the call does not return, and
\* the edge index, the treaps and the anchors are as they were.
C10_PreconditionAborts ==
    [][(call'.op \in {"link", "cut"} /\ ~call'.pre) =>
          /\ status' = "aborted"
          /\ UNCHANGED <<forwardEdges, backwardEdges, treaps, leftOut,
                         rightIn>>]_vars

C10_Witness ==
    /\ status = "aborted" /\ call.op = "cut" /\ ~call.pre
    /\ \E u, v \in vertices : u # v /\ v \in Component(u)

\* C11: createVertex of an id that is already in the table, and removeVertex
\* of a vertex that still has incident edges, abort: the call does not
\* return, and the vertex table and nComponents are as they were.
C11_VertexMisuseAborts ==
    [][(call'.op \in {"createVertex", "removeVertex"} /\ ~call'.pre) =>
          /\ status' = "aborted"
          /\ UNCHANGED <<vertices, nComponents>>]_vars

\* C12 (L1, L2): from any state reached by calls that respected their
\* preconditions, link(u, v) of two vertices of different trees followed by
\* cut(u, v) leaves connected(u, v) false and the connected relation, every
\* size(w) and nComponents as they were before the link; cut(u, v) of an
\* edge of the forest followed by link(u, v) leaves the connected relation,
\* every size(w) and nComponents as they were before the cut.  No call of
\* a round trip aborts.
C12_RoundTrip ==
    /\ script.at # "any" => status = "ok"
    /\ script.at = "linked, cut" =>
          /\ stEulerTour_connected(script.u, script.v) = {"false"}
          /\ Observation = script.seen
    /\ script.at = "cut, linked" => Observation = script.seen

C12_Witness ==
    /\ script.at = "linked, cut" /\ status = "ok" /\ call.op = "cut"
    /\ Cardinality(Component(script.u)) = 2
    /\ script.v \notin Component(script.u)
    /\ Observation = script.seen

\* C13 (I1): as long as every call respected its precondition, leftOut of a
\* vertex is NULL exactly when its rightIn is NULL, after createVertex, link,
\* cut and every other operation, so that the assertion of
\* stEulerVertex_isSingleton holds.
C13_AnchorsTogether ==
    status = "ok" =>
        \A v \in vertices : (leftOut[v] = NULL) <=> (rightIn[v] = NULL)

C13_Witness ==
    /\ status = "ok" /\ call.op = "cut" /\ call.pre
    /\ \E v, w \in vertices :
          /\ leftOut[v] = NULL /\ rightIn[v] = NULL
          /\ leftOut[w] # NULL /\ rightIn[w] # NULL

\* C14 (I2): as long as every call respected its precondition, the two
\* anchors of a vertex that has edges are nodes of one treap, after link,
\* cut and makeRoot, the endpoints of a cut edge included.
C14_AnchorsShareRoot ==
    status = "ok" =>
        \A v \in vertices :
            ~stEulerVertex_isSingleton(leftOut, v) =>
                SameRoot(treaps, leftOut[v], rightIn[v])

\* With three vertices in one tree before the cut, the two that stay linked
\* include an endpoint of the cut edge.
C14_Witness ==
    /\ status = "ok" /\ call.op = "cut" /\ call.pre
    /\ Cardinality(vertices) = 3 /\ nComponents = 2
    /\ \E v \in vertices :
          /\ Cardinality(Component(v)) = 2
          /\ leftOut[v] # rightIn[v]
          /\ SameRoot(treaps, leftOut[v], rightIn[v])

\* C15 (I3): as long as every call respected its precondition, every edge
\* of the index has its forward half and its backward half in one treap,
\* after link, cut and makeRoot.
C15_HalvesShareRoot ==
    status = "ok" =>
        \A e \in forwardEdges :
            /\ <<e[2], e[1]>> \in backwardEdges
            /\ SameRoot(treaps, e, <<e[2], e[1]>>)

C15_Witness ==
    /\ status = "ok" /\ call.op = "link" /\ call.pre
    /\ Cardinality(forwardEdges) = 2
    /\ \A e \in forwardEdges : SameRoot(treaps, e, <<e[2], e[1]>>)

\* The positions, in the treap of v's anchor, of the half-edges incident
\* to v.
IncidentPositions(v) ==
    LET s == stTreap_findRoot(treaps, leftOut[v])
    IN  {i \in 1..Len(s) : stEulerHalfEdge_contains(s[i], v)}

\* C16: in the treap of its component, the first half-edge incident to a
\* vertex v is v.leftOut and the last half-edge incident to v is v.rightIn,
\* after every operation.
C16_AnchorsAreMinMax ==
    status = "ok" =>
        \A v \in vertices :
            leftOut[v] # NULL =>
                LET s == stTreap_findRoot(treaps, leftOut[v])
                IN  /\ rightIn[v] \in Range(s)
                    /\ \A i \in IncidentPositions(v) :
                          /\ i >= Position(treaps, leftOut[v])
                          /\ i <= Position(treaps, rightIn[v])

\* C17: after makeRoot(v) of a vertex v that has edges, the minimum of the
\* treap of v.leftOut is v.leftOut.
C17_RootedAtLeftOut ==
    [][\A v \in Ids :
          (makeRoot(v) /\ ~stEulerVertex_isSingleton(leftOut, v)
               /\ status' = "ok") =>
              stTreap_findMin(stTreap_findRoot(treaps', leftOut'[v]))
                  = leftOut'[v]]_vars

\* C18 (I6): after makeRoot(v) of a vertex v that has edges, a two-vertex
\* tree included, findRootNode(v), the `from` of the minimum half-edge of
\* v's treap, is v.
C18_FindRootIsV ==
    [][\A v \in Ids :
          (makeRoot(v) /\ ~stEulerVertex_isSingleton(leftOut, v)
               /\ status' = "ok") =>
              stEulerTour_findRootNode(v)' = {v}]_vars

\* The sequence s started at its element k + 1 and continued cyclically.
Rotation(s, k) == SubSeq(s, k + 1, Len(s)) \o SubSeq(s, 1, k)

\* C19: makeRoot(v) leaves the treap of v's component a rotation of what it
\* was, so with the same half-edges in the same cyclic order and of the same
\* size; every size(w) is unchanged, and so are the vertex table, the edge
\* index, the anchors of every vertex, nComponents and the other treaps.
C19_PureRotation ==
    [][\A v \in Ids :
          (makeRoot(v) /\ status' = "ok") =>
              /\ UNCHANGED <<vertices, forwardEdges, backwardEdges, leftOut,
                             rightIn, nComponents>>
              /\ \A w \in vertices : stEulerTour_size(w)' = stEulerTour_size(w)
              /\ IF stEulerVertex_isSingleton(leftOut, v)
                 THEN treaps' = treaps
                 ELSE \E k \in 0..(stTreap_size(treaps, leftOut[v]) - 1) :
                        treaps' =
                          (treaps \ {stTreap_findRoot(treaps, leftOut[v])})
                          \cup {Rotation(stTreap_findRoot(treaps,
                                                          leftOut[v]), k)}
      ]_vars

\* A treap that makeRoot has rotated: an anchor pair in reverse order.
C19_Witness ==
    /\ status = "ok" /\ call.op = "makeRoot"
    /\ \E v \in vertices :
          /\ ~stEulerVertex_isSingleton(leftOut, v)
          /\ stTreap_size(treaps, leftOut[v]) = 4
          /\ stTreap_compare(treaps, leftOut[v], rightIn[v]) > 0

\* The treaps as stEulerTour_makeRoot of u and then of v leaves them.
AfterMakeRoots(u, v) ==
    stEulerTour_makeRoot(
        stEulerTour_makeRoot(treaps, leftOut, rightIn, u).T,
        leftOut, rightIn, v).T

\* The sequence of the treap of vertex w among the treaps T, empty when w
\* has no edges.
TourOf(T, w) ==
    IF stEulerVertex_isSingleton(leftOut, w) THEN <<>>
    ELSE stTreap_findRoot(T, leftOut[w])

\* C20: link(u, v) of two vertices of different trees leaves one treap made
\* of the sequence of u's treap as makeRoot(u) left it (empty when u had no
\* edges), the new forward half (u, v), the sequence of v's treap as
\* makeRoot(v) left it (empty when v had no edges) and the new backward half
\* (v, u) as the maximum; the other treaps are untouched, and u.rightIn is
\* the new backward half, whether or not u and v had edges.
C20_LinkSequence ==
    [][\A u, v \in LinkIds :
          (call'.op = "link" /\ status' = "ok" /\ link(u, v)) =>
              LET T == AfterMakeRoots(u, v)
                  U == TourOf(T, u)
                  V == TourOf(T, v)
              IN  /\ treaps' = (T \ {U, V})
                                  \cup {U \o << <<u, v>> >> \o V
                                           \o << <<v, u>> >>}
                  /\ stTreap_findMax(stTreap_findRoot(treaps', <<v, u>>))
                         = <<v, u>>
                  /\ rightIn'[u] = <<v, u>>]_vars

\* Two trees of two vertices each have just been linked.
C20_Witness ==
    /\ status = "ok" /\ call.op = "link"
    /\ \E u, v \in vertices :
          /\ rightIn[u] = <<v, u>>
          /\ stTreap_size(treaps, <<v, u>>) = 6
          /\ stTreap_findRoot(treaps, <<v, u>>)[3] = <<u, v>>
          /\ stTreap_findRoot(treaps, <<v, u>>)[6] = <<v, u>>
          /\ leftOut[u] # <<u, v>> /\ leftOut[v] # <<u, v>>

\* C21: as long as every call respected its precondition, every treap is a
\* closed walk of directed traversals: each half-edge starts at the vertex
\* where the one before it ends, and the last one ends where the first one
\* starts.
C21_EulerWalk ==
    status = "ok" =>
        \A s \in treaps :
            /\ \A i \in 1..(Len(s) - 1) :
                  stEulerHalfEdge_getTo(s[i]) = stEulerHalfEdge_getFrom(s[i + 1])
            /\ stEulerHalfEdge_getTo(stTreap_findMax(s))
                  = stEulerHalfEdge_getFrom(stTreap_findMin(s))

\* The half-edges of the index, forward and backward.
HalfEdges == forwardEdges \cup backwardEdges

\* C22: as long as every call respected its precondition, a vertex has both
\* anchors NULL exactly when no edge of the index is incident to it, and the
\* anchors of a vertex that has edges are two distinct half-edges of the
\* index, each with the vertex as its from or its to.
C22_AnchorsWellFormed ==
    status = "ok" =>
        \A v \in vertices :
            /\ (leftOut[v] = NULL /\ rightIn[v] = NULL) <=>
                   ~\E e \in HalfEdges : stEulerHalfEdge_contains(e, v)
            /\ ~stEulerVertex_isSingleton(leftOut, v) =>
                   /\ rightIn[v] # NULL
                   /\ leftOut[v] # rightIn[v]
                   /\ {leftOut[v], rightIn[v]} \subseteq HalfEdges
                   /\ stEulerHalfEdge_contains(leftOut[v], v)
                   /\ stEulerHalfEdge_contains(rightIn[v], v)

\* A cut has taken the last edge of one endpoint and left the other
\* endpoint with an edge.
C22_Witness ==
    /\ status = "ok" /\ call.op = "cut" /\ call.pre
    /\ Cardinality(forwardEdges) = 1
    /\ \E v, w \in vertices :
          /\ leftOut[v] = NULL
          /\ ~\E e \in HalfEdges : stEulerHalfEdge_contains(e, v)
          /\ leftOut[w] \in HalfEdges /\ rightIn[w] \in HalfEdges
          /\ leftOut[w] # rightIn[w]

\* C23: makeRoot(v) of a vertex v that has edges returns, without the
\* treap neighbour it reads being absent, and leaves both the minimum and
\* the maximum of v's treap incident to v.
C23_EndsIncident ==
    [][\A v \in Ids :
          (makeRoot(v) /\ ~stEulerVertex_isSingleton(leftOut, v)) =>
              /\ status' = "ok"
              /\ stEulerHalfEdge_contains(
                     stTreap_findMin(stTreap_findRoot(treaps', leftOut'[v])),
                     v)
              /\ stEulerHalfEdge_contains(
                     stTreap_findMax(stTreap_findRoot(treaps', leftOut'[v])),
                     v)]_vars

\* makeRoot has returned on a tree of three vertices, and some vertex has
\* both ends of the treap incident to it without its anchors being the ends.
C23_Witness ==
    /\ status = "ok" /\ call.op = "makeRoot"
    /\ \E v \in vertices :
          /\ ~stEulerVertex_isSingleton(leftOut, v)
          /\ stTreap_size(treaps, leftOut[v]) = 4
          /\ LET s == stTreap_findRoot(treaps, leftOut[v])
             IN  /\ stEulerHalfEdge_contains(stTreap_findMin(s), v)
                 /\ stEulerHalfEdge_contains(stTreap_findMax(s), v)
                 /\ stTreap_findMin(s) # leftOut[v]

\* C24: as long as every call respected its precondition, and whatever the
\* ids are, 0 included, the loops of getNodesInComponent and of printTour
\* run to the end of the vertex iterator: the set returned holds every
\* vertex of the component, a vertex 0 without edges included, and the tour
\* printed is every value the iterator yields.
C24_IdsAreOpaque ==
    status = "ok" =>
        \A v \in vertices :
            /\ Component(v) \subseteq stEulerTour_getNodesInComponent(v)
            /\ stEulerTour_printTour(v) = IteratorTrace(v).out
====
